---- MODULE Spec2Model ----
(***************************************************************************)
(* Graceful restart / shutdown orchestration of ginx.                      *)
(*                                                                         *)
(*   engine.go             Engine.GracefulServe, RegisterOnShutdown,       *)
(*                         executeShutdownCallbacks, GracefulRun           *)
(*   upgrader/upgrader.go  GracefulUpgrader.Listen, Reload, WaitForSignal  *)
(*                                                                         *)
(* A chain of OS processes is modelled: process 1 is started by the        *)
(* operator, every further process is started by os.StartProcess in        *)
(* Reload.  Every per-process variable is a function of the process.       *)
(***************************************************************************)
EXTENDS Integers, Sequences, FiniteSets, TLC

\* ------------------------------------------------------------------ bounds
MaxProcs == 3        \* processes of one reload chain (root, child, grandchild)
MaxSignals == 3      \* signals delivered to the chain in one behaviour
MaxCallbacks == 2    \* registrations on one Engine

Procs == 1..MaxProcs
Callbacks == {"cbA", "cbB"}

\* ------------------------------------------------------- descriptors, env
Desc(k, s) == [kind |-> k, sock |-> s]
Stdin == Desc("stdin", 0)
Stdout == Desc("stdout", 0)
Stderr == Desc("stderr", 0)
ClosedFd == Desc("closed", 0)

\* The three standard streams with descriptor slot 3 set to d.
StdFiles(d) == (0 :> Stdin) @@ (1 :> Stdout) @@ (2 :> Stderr) @@ (3 :> d)

NoListener == [kind |-> "none", sock |-> 0, origin |-> "None", open |-> FALSE]

PathVar == <<"PATH", "/bin">>
Marker == <<"GRACEFUL_RESTART", "true">>

\* os.Getenv: the value of the first entry of the environment block with
\* the key, "" when there is none.
RECURSIVE Getenv(_, _)
Getenv(e, key) ==
    IF e = << >> THEN ""
    ELSE IF Head(e)[1] = key THEN Head(e)[2]
    ELSE Getenv(Tail(e), key)

\* os.Environ: the environment block, of a repeated key the first entry only.
RECURSIVE Environ(_)
Environ(e) ==
    IF e = << >> THEN << >>
    ELSE LET rest == Environ(SubSeq(e, 1, Len(e) - 1))
             last == e[Len(e)]
         IN  IF \E i \in 1..Len(rest) : rest[i][1] = last[1]
             THEN rest
             ELSE Append(rest, last)

VARIABLES
    pc,                 \* position of the process's main goroutine
    mode,               \* the top-level run call the process made
    env,                \* environment block the process was started with
    fds,                \* descriptor table, slots 0..3
    ln,                 \* GracefulUpgrader.ln
    srv,                \* http.Server: "idle", "serving", "failed", "shutdown"
    signalChan,         \* signalChan / quit: buffered channel of capacity 1
    errChan,            \* errChan of GracefulServe: capacity 1
    sig,                \* the signal last taken from the channel
    ret,                \* value returned by the top-level run call
    shutdownCallbacks,  \* Engine.shutdownCallbacks
    cbRange,            \* what is left of the range loop's copy of the slice
    cbLog,              \* callbacks invoked so far, in order of invocation
    cbAtSignal,         \* the registry at the moment the quit signal was taken
    reloadCalls,        \* calls of Reload
    shutdownCalls,      \* calls of server.Shutdown
    spawned,            \* children started by the process
    parent,             \* the process whose Reload started this one (0: none)
    procAttr,           \* Env and Files the process was started with
    shutdownResult,     \* what server.Shutdown returned ("none": not yet)
    running,            \* Reload and Shutdown invocations in progress
    delivered,          \* signals delivered so far (bounded by MaxSignals)
    \* Engine.Run on the delegated upgrader (one process)
    runPc,              \* position of Run
    runRet,             \* value returned by Run
    stopCalls,          \* calls of upgrader.Stop
    stopped,            \* the broker has been told to stop or has upgraded
    exitFired,          \* the channel returned by Exit() is closed
    bServe,             \* the goroutine running server.Serve
    wStarted,           \* WatchSignal has started its goroutine
    wChan,              \* sig of WatchSignal: buffered channel of capacity 1
    wPc,                \* position of the watcher goroutine
    upgradeCalls,       \* calls of upg.Upgrade
    upgradesRunning,    \* calls of upg.Upgrade in progress
    hupsTaken,          \* signals the watcher has taken from its channel
    \* concurrent callers of RegisterOnShutdown
    regPc,              \* position of each caller inside the append statement
    regLocal            \* the slice value each caller has read

vars == <<pc, mode, env, fds, ln, srv, signalChan, errChan, sig, ret,
          shutdownCallbacks, cbRange, cbLog, cbAtSignal, reloadCalls,
          shutdownCalls, spawned, parent, procAttr, shutdownResult, running,
          delivered, runPc, runRet, stopCalls, stopped, exitFired,
          bServe, wStarted, wChan, wPc, upgradeCalls, upgradesRunning,
          hupsTaken, regPc, regLocal>>

\* The variables of the self-managed strategy and of GracefulServe.
chainVars == <<pc, mode, env, fds, ln, srv, signalChan, errChan, sig, ret,
               shutdownCallbacks, cbRange, cbLog, cbAtSignal, reloadCalls,
               shutdownCalls, spawned, parent, procAttr, shutdownResult,
               running, delivered>>
brokerVars == <<runPc, runRet, stopCalls, stopped, exitFired, bServe, wStarted,
                wChan, wPc, upgradeCalls, upgradesRunning, hupsTaken>>
regVars == <<regPc, regLocal>>

\* The goroutines that call RegisterOnShutdown concurrently, each named by
\* the callback it registers.
Registrars == {"cbA", "cbB", "cbC"}

engineVars == <<shutdownCallbacks, cbRange, cbLog, cbAtSignal>>
procVars == <<env, fds, parent, procAttr, spawned>>

NoAttr == [Env |-> << >>, Files |-> StdFiles(ClosedFd)]

\* A process exists and has not crashed.
Alive(p) == pc[p] \notin {"unborn", "panicked"}

\* signal.Notify: the signals relayed to the channel.
Notified(p) ==
    CASE mode[p] = "GracefulServe" -> {"INT", "TERM", "QUIT"}
      [] mode[p] = "GracefulRun" /\ ret[p] # "failed to create listener" ->
            {"HUP", "TERM", "INT"}
      [] OTHER -> {}

\* ------------------------------------------------------------------- Init
\* How the operator may start process 1: without the marker, with it set to
\* something other than "true", or with it injected together with some
\* descriptor (or none) at slot 3.
RootStarts ==
    {<<<<PathVar>>, ClosedFd>>,
     <<<<PathVar, <<"GRACEFUL_RESTART", "false">>>>, ClosedFd>>,
     <<<<PathVar, Marker>>, ClosedFd>>,
     <<<<PathVar, Marker>>, Desc("file", 0)>>,
     <<<<PathVar, Marker>>, Desc("tcp", 0)>>,
     <<<<PathVar, Marker>>, Desc("unix", 0)>>}

Init ==
    \E st \in RootStarts :
        /\ pc = [p \in Procs |-> IF p = 1 THEN "start" ELSE "unborn"]
        /\ mode = [p \in Procs |-> "none"]
        /\ env = [p \in Procs |-> IF p = 1 THEN st[1] ELSE << >>]
        /\ fds = [p \in Procs |-> IF p = 1 THEN StdFiles(st[2]) ELSE StdFiles(ClosedFd)]
        /\ ln = [p \in Procs |-> NoListener]
        /\ srv = [p \in Procs |-> "idle"]
        /\ signalChan = [p \in Procs |-> << >>]
        /\ errChan = [p \in Procs |-> << >>]
        /\ sig = [p \in Procs |-> "none"]
        /\ ret = [p \in Procs |-> "none"]
        /\ shutdownCallbacks = [p \in Procs |-> << >>]
        /\ cbRange = [p \in Procs |-> << >>]
        /\ cbLog = [p \in Procs |-> << >>]
        /\ cbAtSignal = [p \in Procs |-> << >>]
        /\ reloadCalls = [p \in Procs |-> 0]
        /\ shutdownCalls = [p \in Procs |-> 0]
        /\ spawned = [p \in Procs |-> 0]
        /\ parent = [p \in Procs |-> 0]
        /\ procAttr = [p \in Procs |->
                         IF p = 1 THEN [Env |-> st[1], Files |-> StdFiles(st[2])]
                         ELSE NoAttr]
        /\ shutdownResult = [p \in Procs |-> "none"]
        /\ running = [p \in Procs |-> 0]
        /\ delivered = 0
        /\ runPc = "start"
        /\ runRet = "none"
        /\ stopCalls = 0
        /\ stopped = FALSE
        /\ exitFired = FALSE
        /\ bServe = "idle"
        /\ wStarted = FALSE
        /\ wChan = << >>
        /\ wPc = "idle"
        /\ upgradeCalls = 0
        /\ upgradesRunning = 0
        /\ hupsTaken = 0
        /\ regPc = [g \in Registrars |-> "idle"]
        /\ regLocal = [g \in Registrars |-> << >>]

\* ------------------------------------------------- Engine.RegisterOnShutdown
RegisterOnShutdown(p, f) ==
    /\ Alive(p)
    /\ pc[p] # "returned"
    /\ p = 1      \* the registry is followed on the first process's Engine
    /\ Len(shutdownCallbacks[p]) < MaxCallbacks
    /\ shutdownCallbacks' = [shutdownCallbacks EXCEPT ![p] = Append(@, f)]
    /\ UNCHANGED <<pc, mode, env, fds, ln, srv, signalChan, errChan, sig, ret,
                   cbRange, cbLog, cbAtSignal, reloadCalls, shutdownCalls,
                   spawned, parent, procAttr, shutdownResult, running,
                   delivered>>
    /\ UNCHANGED <<brokerVars, regVars>>

\* --------------------------------------------------- Engine.GracefulServe
\* Outcomes of server.Shutdown(ctx): it returns nil, or ctx's error once the
\* 30 second deadline has passed.
ShutdownOutcomes == {"nil", "deadline"}

\* Lines 194-203: the quit channel is registered and the goroutine running
\* server.ListenAndServe is started; the caller blocks in the select.
\* GracefulServe never spawns, so only the process the operator started
\* can be running it.
GracefulServe(p) ==
    /\ pc[p] = "start"
    /\ p = 1
    /\ pc' = [pc EXCEPT ![p] = "select"]
    /\ mode' = [mode EXCEPT ![p] = "GracefulServe"]
    /\ srv' = [srv EXCEPT ![p] = "serving"]
    /\ UNCHANGED <<ln, signalChan, errChan, sig, ret, reloadCalls,
                   shutdownCalls, delivered>>
    /\ UNCHANGED engineVars
    /\ UNCHANGED procVars
    /\ UNCHANGED <<shutdownResult, running>>
    /\ UNCHANGED <<brokerVars, regVars>>

\* Lines 199-203: ListenAndServe returns an error other than ErrServerClosed
\* and the goroutine sends it on errChan (capacity 1, written once).
ListenAndServeFail(p) ==
    /\ Alive(p)
    /\ mode[p] = "GracefulServe"
    /\ srv[p] = "serving"
    /\ srv' = [srv EXCEPT ![p] = "failed"]
    /\ errChan' = [errChan EXCEPT ![p] = <<"err">>]
    /\ UNCHANGED <<pc, mode, ln, signalChan, sig, ret, reloadCalls,
                   shutdownCalls, delivered>>
    /\ UNCHANGED engineVars
    /\ UNCHANGED procVars
    /\ UNCHANGED <<shutdownResult, running>>
    /\ UNCHANGED <<brokerVars, regVars>>

\* A plausible slip: server.Shutdown is called before the callbacks run.
ServeQuitShutdownFirst(p) ==
    /\ pc[p] = "select"
    /\ signalChan[p] # << >>
    /\ sig' = [sig EXCEPT ![p] = Head(signalChan[p])]
    /\ signalChan' = [signalChan EXCEPT ![p] = Tail(@)]
    /\ cbAtSignal' = [cbAtSignal EXCEPT ![p] = shutdownCallbacks[p]]
    /\ cbRange' = [cbRange EXCEPT ![p] = shutdownCallbacks[p]]
    /\ pc' = [pc EXCEPT ![p] = "gsShutdown"]
    /\ shutdownCalls' = [shutdownCalls EXCEPT ![p] = @ + 1]
    /\ srv' = [srv EXCEPT ![p] = "shutdown"]
    /\ UNCHANGED <<mode, ln, errChan, ret, shutdownCallbacks, cbLog,
                   reloadCalls, delivered>>
    /\ UNCHANGED procVars
    /\ running' = [running EXCEPT ![p] = @ + 1]
    /\ UNCHANGED shutdownResult
    /\ UNCHANGED <<brokerVars, regVars>>

\* Lines 206-212 and 232: the select takes the quit case, and
\* executeShutdownCallbacks starts its range loop over the slice as it is now.
ServeQuit(p) ==
    /\ pc[p] = "select"
    /\ signalChan[p] # << >>
    /\ sig' = [sig EXCEPT ![p] = Head(signalChan[p])]
    /\ signalChan' = [signalChan EXCEPT ![p] = Tail(@)]
    /\ cbAtSignal' = [cbAtSignal EXCEPT ![p] = shutdownCallbacks[p]]
    /\ cbRange' = [cbRange EXCEPT ![p] = shutdownCallbacks[p]]
    /\ pc' = [pc EXCEPT ![p] = "callbacks"]
    /\ UNCHANGED <<mode, ln, srv, errChan, ret, shutdownCallbacks, cbLog,
                   reloadCalls, shutdownCalls, delivered>>
    /\ UNCHANGED procVars
    /\ UNCHANGED <<shutdownResult, running>>
    /\ UNCHANGED <<brokerVars, regVars>>

\* Lines 222-223: the select takes the errChan case.
ServeErr(p) ==
    /\ pc[p] = "select"
    /\ errChan[p] # << >>
    /\ errChan' = [errChan EXCEPT ![p] = Tail(@)]
    /\ pc' = [pc EXCEPT ![p] = "returned"]
    /\ ret' = [ret EXCEPT ![p] = "HTTP server error"]
    /\ UNCHANGED <<mode, ln, srv, signalChan, sig, reloadCalls,
                   shutdownCalls, delivered>>
    /\ UNCHANGED engineVars
    /\ UNCHANGED procVars
    /\ UNCHANGED <<shutdownResult, running>>
    /\ UNCHANGED <<brokerVars, regVars>>

\* A plausible slip: the loop indexes the live slice and re-reads its length
\* at every iteration.
CallbackReturnsLiveSlice(p) ==
    /\ pc[p] = "callbacks"
    /\ Len(cbLog[p]) < Len(shutdownCallbacks[p])
    /\ cbLog' = [cbLog EXCEPT ![p] =
                    Append(@, shutdownCallbacks[p][Len(cbLog[p]) + 1])]
    /\ cbRange' = [cbRange EXCEPT ![p] =
                      SubSeq(shutdownCallbacks[p], Len(cbLog[p]) + 2,
                             Len(shutdownCallbacks[p]))]
    /\ UNCHANGED <<pc, mode, ln, srv, signalChan, errChan, sig, ret,
                   shutdownCallbacks, cbAtSignal, reloadCalls, shutdownCalls,
                   delivered>>
    /\ UNCHANGED procVars
    /\ UNCHANGED <<shutdownResult, running>>
    /\ UNCHANGED <<brokerVars, regVars>>

\* Lines 232-234: one iteration, cb() is called and returns.
CallbackReturns(p) ==
    /\ pc[p] = "callbacks"
    /\ cbRange[p] # << >>
    /\ cbLog' = [cbLog EXCEPT ![p] = Append(@, Head(cbRange[p]))]
    /\ cbRange' = [cbRange EXCEPT ![p] = Tail(@)]
    /\ UNCHANGED <<pc, mode, ln, srv, signalChan, errChan, sig, ret,
                   shutdownCallbacks, cbAtSignal, reloadCalls, shutdownCalls,
                   delivered>>
    /\ UNCHANGED procVars
    /\ UNCHANGED <<shutdownResult, running>>
    /\ UNCHANGED <<brokerVars, regVars>>

\* Line 233: cb() panics; nothing recovers, the process crashes.
CallbackPanics(p) ==
    /\ pc[p] = "callbacks"
    /\ cbRange[p] # << >>
    /\ cbLog' = [cbLog EXCEPT ![p] = Append(@, Head(cbRange[p]))]
    /\ cbRange' = [cbRange EXCEPT ![p] = Tail(@)]
    /\ pc' = [pc EXCEPT ![p] = "panicked"]
    /\ UNCHANGED <<mode, ln, srv, signalChan, errChan, sig, ret,
                   shutdownCallbacks, cbAtSignal, reloadCalls, shutdownCalls,
                   delivered>>
    /\ UNCHANGED procVars
    /\ UNCHANGED <<shutdownResult, running>>
    /\ UNCHANGED <<brokerVars, regVars>>

\* Line 214: the loop is over, server.Shutdown(ctx) is called.
ServeShutdown(p) ==
    /\ pc[p] = "callbacks"
    /\ cbRange[p] = << >>
    /\ pc' = [pc EXCEPT ![p] = "gsShutdown"]
    /\ shutdownCalls' = [shutdownCalls EXCEPT ![p] = @ + 1]
    /\ srv' = [srv EXCEPT ![p] = "shutdown"]
    /\ UNCHANGED <<mode, ln, signalChan, errChan, sig, ret, reloadCalls,
                   delivered>>
    /\ UNCHANGED engineVars
    /\ UNCHANGED procVars
    /\ running' = [running EXCEPT ![p] = @ + 1]
    /\ UNCHANGED shutdownResult
    /\ UNCHANGED <<brokerVars, regVars>>

\* Lines 214-220: what GracefulServe returns for Shutdown's result.
ServeResult(outcome) ==
    IF outcome # "nil" THEN "server shutdown error" ELSE "nil"

ServeShutdownReturns(p, outcome) ==
    /\ pc[p] = "gsShutdown"
    /\ pc' = [pc EXCEPT ![p] = "returned"]
    /\ ret' = [ret EXCEPT ![p] = ServeResult(outcome)]
    /\ UNCHANGED <<mode, ln, srv, signalChan, errChan, sig, reloadCalls,
                   shutdownCalls, delivered>>
    /\ UNCHANGED engineVars
    /\ UNCHANGED procVars
    /\ running' = [running EXCEPT ![p] = @ - 1]
    /\ shutdownResult' = [shutdownResult EXCEPT ![p] = outcome]
    /\ UNCHANGED <<brokerVars, regVars>>

\* ------------------------------------------------ GracefulUpgrader.Listen
\* The address is taken while a living process holds a descriptor of a
\* socket bound to it.
AddrInUse ==
    \E q \in Procs :
        /\ Alive(q)
        /\ \/ ln[q].open
           \/ fds[q][3].kind \in {"tcp", "unix"}

\* net.FileListener wraps a descriptor of a listening socket and nothing else.
Wrappable(d) == d.kind \in {"tcp", "unix"}

\* A plausible slip: an inheritance that fails falls back to a fresh bind.
ListenWithFallback(p, bindOK) ==
    IF Getenv(env[p], "GRACEFUL_RESTART") = "true" /\ Wrappable(fds[p][3])
    THEN [err |-> "nil",
          ln |-> [kind |-> fds[p][3].kind, sock |-> fds[p][3].sock,
                  origin |-> "Inherited", open |-> TRUE],
          fd3 |-> ClosedFd]
    ELSE IF bindOK /\ ~AddrInUse
         THEN [err |-> "nil",
               ln |-> [kind |-> "tcp", sock |-> p, origin |-> "Fresh",
                       open |-> TRUE],
               fd3 |-> fds[p][3]]
         ELSE [err |-> "failed to create listener", ln |-> ln[p],
               fd3 |-> fds[p][3]]

\* Listen(network, address): the error returned, g.ln afterwards and slot 3
\* of the descriptor table afterwards.  bindOK: nothing outside the chain
\* keeps net.Listen from binding.
Listen(p, bindOK) ==
    IF Getenv(env[p], "GRACEFUL_RESTART") = "true"
    THEN IF Wrappable(fds[p][3])
         THEN [err |-> "nil",
               ln |-> [kind |-> fds[p][3].kind, sock |-> fds[p][3].sock,
                       origin |-> "Inherited", open |-> TRUE],
               fd3 |-> ClosedFd]
         ELSE [err |-> "failed to inherit listener", ln |-> ln[p],
               fd3 |-> fds[p][3]]
    ELSE IF bindOK /\ ~AddrInUse
         THEN [err |-> "nil",
               ln |-> [kind |-> "tcp", sock |-> p, origin |-> "Fresh",
                       open |-> TRUE],
               fd3 |-> fds[p][3]]
         ELSE [err |-> "failed to create listener", ln |-> ln[p],
               fd3 |-> fds[p][3]]

\* ----------------------------------------------------- Engine.GracefulRun
\* Lines 238-254 and upgrader.go 174-175: Listen; on an error GracefulRun
\* returns it wrapped; otherwise the Serve goroutine is started and
\* WaitForSignal registers its channel and blocks on it.
GracefulRun(p, bindOK) ==
    /\ pc[p] = "start"
    /\ mode' = [mode EXCEPT ![p] = "GracefulRun"]
    /\ LET r == Listen(p, bindOK)
       IN  /\ ln' = [ln EXCEPT ![p] = r.ln]
           /\ fds' = [fds EXCEPT ![p][3] = r.fd3]
           /\ IF r.err # "nil"
              THEN /\ pc' = [pc EXCEPT ![p] = "returned"]
                   /\ ret' = [ret EXCEPT ![p] = "failed to create listener"]
                   /\ srv' = srv
              ELSE /\ pc' = [pc EXCEPT ![p] = "waiting"]
                   /\ ret' = ret
                   /\ srv' = [srv EXCEPT ![p] = "serving"]
    /\ UNCHANGED <<signalChan, errChan, sig, reloadCalls, shutdownCalls,
                   delivered, env, parent, procAttr, spawned>>
    /\ UNCHANGED engineVars
    /\ UNCHANGED <<shutdownResult, running>>
    /\ UNCHANGED <<brokerVars, regVars>>

\* Lines 250-254: Serve returns an error other than ErrServerClosed; it is
\* logged, and Serve has closed the listener on its way out.
ServeFail(p) ==
    /\ Alive(p)
    /\ mode[p] = "GracefulRun"
    /\ srv[p] = "serving"
    /\ srv' = [srv EXCEPT ![p] = "failed"]
    /\ ln' = [ln EXCEPT ![p].open = FALSE]
    /\ UNCHANGED <<pc, mode, signalChan, errChan, sig, ret, reloadCalls,
                   shutdownCalls, delivered>>
    /\ UNCHANGED engineVars
    /\ UNCHANGED procVars
    /\ UNCHANGED <<shutdownResult, running>>
    /\ UNCHANGED <<brokerVars, regVars>>

\* ------------------------------------------------ GracefulUpgrader.Reload
\* What the operating system answers during one Reload.
ReloadInputs == [exeOK : BOOLEAN, dupOK : BOOLEAN, startOK : BOOLEAN]

\* Line 152: the environment of the child.
ChildEnv(p) == Append(Environ(env[p]), Marker)

\* A plausible slip: the listener's file is left out of ProcAttr.Files.
ChildFilesNoListener(p) ==
    (0 :> fds[p][0]) @@ (1 :> fds[p][1]) @@ (2 :> fds[p][2])
        @@ (3 :> ClosedFd)

\* Line 157: the descriptor table of the child, listenerFile being a
\* duplicate of the listener's descriptor.
ChildFiles(p) ==
    (0 :> fds[p][0]) @@ (1 :> fds[p][1]) @@ (2 :> fds[p][2])
        @@ (3 :> Desc("tcp", ln[p].sock))

\* Lines 139-167: the result of Reload; "panic" is the type assertion of
\* line 145 failing, which no caller recovers.
Reload(p, in) ==
    IF ~in.exeOK THEN "failed to get executable path"
    ELSE IF ln[p].kind # "tcp" THEN "panic"
    ELSE IF ~ln[p].open \/ ~in.dupOK THEN "failed to get listener file"
    ELSE IF ~in.startOK THEN "failed to start new process"
    ELSE "nil"

Unborn == {q \in Procs : pc[q] = "unborn"}
NextPid == CHOOSE q \in Unborn : \A r \in Unborn : q <= r

\* ------------------------------------------ GracefulUpgrader.WaitForSignal
\* A plausible slip: Reload is started in a goroutine of its own and the
\* loop goes back to the channel.
HandleHUPAsync(p) ==
    /\ pc[p] \in {"waiting", "reloading"}
    /\ signalChan[p] # << >>
    /\ Head(signalChan[p]) = "HUP"
    /\ signalChan' = [signalChan EXCEPT ![p] = Tail(@)]
    /\ sig' = [sig EXCEPT ![p] = "HUP"]
    /\ pc' = [pc EXCEPT ![p] = "reloading"]
    /\ reloadCalls' = [reloadCalls EXCEPT ![p] = @ + 1]
    /\ UNCHANGED <<mode, ln, srv, errChan, ret, shutdownCalls, delivered>>
    /\ UNCHANGED engineVars
    /\ UNCHANGED procVars
    /\ running' = [running EXCEPT ![p] = @ + 1]
    /\ UNCHANGED shutdownResult
    /\ UNCHANGED <<brokerVars, regVars>>

\* Lines 178-182: HUP is taken from the channel and Reload is called.
HandleHUP(p) ==
    /\ pc[p] = "waiting"
    /\ signalChan[p] # << >>
    /\ Head(signalChan[p]) = "HUP"
    /\ signalChan' = [signalChan EXCEPT ![p] = Tail(@)]
    /\ sig' = [sig EXCEPT ![p] = "HUP"]
    /\ pc' = [pc EXCEPT ![p] = "reloading"]
    /\ reloadCalls' = [reloadCalls EXCEPT ![p] = @ + 1]
    /\ UNCHANGED <<mode, ln, srv, errChan, ret, shutdownCalls, delivered>>
    /\ UNCHANGED engineVars
    /\ UNCHANGED procVars
    /\ running' = [running EXCEPT ![p] = @ + 1]
    /\ UNCHANGED shutdownResult
    /\ UNCHANGED <<brokerVars, regVars>>

\* A plausible slip: the terminate case runs into the reload case.
HandleTermViaReload(p) ==
    /\ pc[p] = "waiting"
    /\ signalChan[p] # << >>
    /\ Head(signalChan[p]) \in {"TERM", "INT"}
    /\ signalChan' = [signalChan EXCEPT ![p] = Tail(@)]
    /\ sig' = [sig EXCEPT ![p] = Head(signalChan[p])]
    /\ pc' = [pc EXCEPT ![p] = "reloading"]
    /\ reloadCalls' = [reloadCalls EXCEPT ![p] = @ + 1]
    /\ running' = [running EXCEPT ![p] = @ + 1]
    /\ UNCHANGED <<mode, ln, srv, errChan, ret, shutdownCalls, delivered,
                   shutdownResult>>
    /\ UNCHANGED engineVars
    /\ UNCHANGED procVars
    /\ UNCHANGED <<brokerVars, regVars>>

\* Lines 199-204: TERM or INT is taken from the channel and server.Shutdown
\* is called, which closes the listener the server was serving.
HandleTerm(p) ==
    /\ pc[p] = "waiting"
    /\ signalChan[p] # << >>
    /\ Head(signalChan[p]) \in {"TERM", "INT"}
    /\ signalChan' = [signalChan EXCEPT ![p] = Tail(@)]
    /\ sig' = [sig EXCEPT ![p] = Head(signalChan[p])]
    /\ pc' = [pc EXCEPT ![p] = "draining"]
    /\ shutdownCalls' = [shutdownCalls EXCEPT ![p] = @ + 1]
    /\ srv' = [srv EXCEPT ![p] = "shutdown"]
    /\ ln' = [ln EXCEPT ![p].open = FALSE]
    /\ UNCHANGED <<mode, errChan, ret, reloadCalls, delivered>>
    /\ UNCHANGED engineVars
    /\ UNCHANGED procVars
    /\ running' = [running EXCEPT ![p] = @ + 1]
    /\ UNCHANGED shutdownResult
    /\ UNCHANGED <<brokerVars, regVars>>

\* A plausible slip: the error of Reload is returned instead of logged.
ReloadFailsAndReturns(p, in) ==
    /\ pc[p] = "reloading"
    /\ Reload(p, in) \notin {"nil", "panic"}
    /\ pc' = [pc EXCEPT ![p] = "returned"]
    /\ ret' = [ret EXCEPT ![p] = Reload(p, in)]
    /\ running' = [running EXCEPT ![p] = @ - 1]
    /\ UNCHANGED <<mode, ln, srv, signalChan, errChan, sig, reloadCalls,
                   shutdownCalls, delivered, shutdownResult>>
    /\ UNCHANGED engineVars
    /\ UNCHANGED procVars
    /\ UNCHANGED <<brokerVars, regVars>>

\* Lines 182-185: Reload returned an error; it is logged and the loop
\* continues with the next receive.
ReloadFails(p, in) ==
    /\ pc[p] = "reloading"
    /\ Reload(p, in) \notin {"nil", "panic"}
    /\ pc' = [pc EXCEPT ![p] = "waiting"]
    /\ UNCHANGED <<mode, ln, srv, signalChan, errChan, sig, ret, reloadCalls,
                   shutdownCalls, delivered>>
    /\ UNCHANGED engineVars
    /\ UNCHANGED procVars
    /\ running' = [running EXCEPT ![p] = @ - 1]
    /\ UNCHANGED shutdownResult
    /\ UNCHANGED <<brokerVars, regVars>>

\* Line 145: g.ln is no *net.TCPListener, the assertion panics and the
\* process crashes.
ReloadPanics(p, in) ==
    /\ pc[p] = "reloading"
    /\ Reload(p, in) = "panic"
    /\ pc' = [pc EXCEPT ![p] = "panicked"]
    /\ UNCHANGED <<mode, ln, srv, signalChan, errChan, sig, ret, reloadCalls,
                   shutdownCalls, delivered>>
    /\ UNCHANGED engineVars
    /\ UNCHANGED procVars
    /\ UNCHANGED <<shutdownResult, running>>
    /\ UNCHANGED <<brokerVars, regVars>>

\* A plausible slip: the child is started as any other program would be,
\* with the parent's environment and the standard streams only.
ReloadSucceedsPlainExec(p, in) ==
    /\ pc[p] = "reloading"
    /\ Reload(p, in) = "nil"
    /\ Unborn # {}
    /\ LET c == NextPid
       IN  /\ pc' = [pc EXCEPT ![p] = "draining", ![c] = "start"]
           /\ env' = [env EXCEPT ![c] = Environ(env[p])]
           /\ fds' = [fds EXCEPT ![c] = StdFiles(ClosedFd)]
           /\ procAttr' = [procAttr EXCEPT ![c] =
                              [Env |-> Environ(env[p]),
                               Files |-> StdFiles(ClosedFd)]]
           /\ parent' = [parent EXCEPT ![c] = p]
    /\ spawned' = [spawned EXCEPT ![p] = @ + 1]
    /\ shutdownCalls' = [shutdownCalls EXCEPT ![p] = @ + 1]
    /\ srv' = [srv EXCEPT ![p] = "shutdown"]
    /\ ln' = [ln EXCEPT ![p].open = FALSE]
    /\ UNCHANGED <<mode, signalChan, errChan, sig, ret, reloadCalls, delivered,
                   shutdownResult, running>>
    /\ UNCHANGED engineVars
    /\ UNCHANGED <<brokerVars, regVars>>

\* A plausible slip: Reload waits until the child has made its run call and
\* is listening before it returns.
ReloadSucceedsAwaitsReady(p, in) ==
    /\ pc[p] = "reloading"
    /\ Reload(p, in) = "nil"
    /\ Unborn # {}
    /\ LET c == NextPid
       IN  /\ pc' = [pc EXCEPT ![p] = "draining", ![c] = "waiting"]
           /\ env' = [env EXCEPT ![c] = ChildEnv(p)]
           /\ fds' = [fds EXCEPT ![c] = [ChildFiles(p) EXCEPT ![3] = ClosedFd]]
           /\ procAttr' = [procAttr EXCEPT ![c] =
                              [Env |-> ChildEnv(p), Files |-> ChildFiles(p)]]
           /\ parent' = [parent EXCEPT ![c] = p]
           /\ mode' = [mode EXCEPT ![c] = "GracefulRun"]
           /\ ln' = [ln EXCEPT ![p].open = FALSE,
                               ![c] = [kind |-> "tcp", sock |-> ln[p].sock,
                                       origin |-> "Inherited", open |-> TRUE]]
           /\ srv' = [srv EXCEPT ![p] = "shutdown", ![c] = "serving"]
    /\ spawned' = [spawned EXCEPT ![p] = @ + 1]
    /\ shutdownCalls' = [shutdownCalls EXCEPT ![p] = @ + 1]
    /\ UNCHANGED <<signalChan, errChan, sig, ret, reloadCalls, delivered>>
    /\ UNCHANGED engineVars
    /\ UNCHANGED <<shutdownResult, running>>
    /\ UNCHANGED <<brokerVars, regVars>>

\* Lines 155-167 and 188-191: os.StartProcess started the child, Reload
\* returned nil and server.Shutdown is called.
ReloadSucceeds(p, in) ==
    /\ pc[p] = "reloading"
    /\ Reload(p, in) = "nil"
    /\ Unborn # {}
    /\ LET c == NextPid
       IN  /\ pc' = [pc EXCEPT ![p] = "draining", ![c] = "start"]
           /\ env' = [env EXCEPT ![c] = ChildEnv(p)]
           /\ fds' = [fds EXCEPT ![c] = ChildFiles(p)]
           /\ procAttr' = [procAttr EXCEPT ![c] =
                              [Env |-> ChildEnv(p), Files |-> ChildFiles(p)]]
           /\ parent' = [parent EXCEPT ![c] = p]
    /\ spawned' = [spawned EXCEPT ![p] = @ + 1]
    /\ shutdownCalls' = [shutdownCalls EXCEPT ![p] = @ + 1]
    /\ srv' = [srv EXCEPT ![p] = "shutdown"]
    /\ ln' = [ln EXCEPT ![p].open = FALSE]
    /\ UNCHANGED <<mode, signalChan, errChan, sig, ret, reloadCalls, delivered>>
    /\ UNCHANGED engineVars
    /\ UNCHANGED <<shutdownResult, running>>
    /\ UNCHANGED <<brokerVars, regVars>>

\* Lines 191-197 and 204-210: what WaitForSignal returns for Shutdown's
\* result.
WaitResultNilAlways(outcome) == "nil"

WaitResult(outcome) == IF outcome # "nil" THEN "deadline exceeded" ELSE "nil"

RunShutdownReturns(p, outcome) ==
    /\ pc[p] = "draining"
    /\ pc' = [pc EXCEPT ![p] = "returned"]
    /\ ret' = [ret EXCEPT ![p] = WaitResult(outcome)]
    /\ UNCHANGED <<mode, ln, srv, signalChan, errChan, sig, reloadCalls,
                   shutdownCalls, delivered>>
    /\ UNCHANGED engineVars
    /\ UNCHANGED procVars
    /\ running' = [running EXCEPT ![p] = @ - 1]
    /\ shutdownResult' = [shutdownResult EXCEPT ![p] = outcome]
    /\ UNCHANGED <<brokerVars, regVars>>

\* A plausible slip: the channel is made without a capacity limit, so every
\* signal is queued.
DeliverSignalQueues(p, s) ==
    /\ Alive(p)
    /\ s \in Notified(p)
    /\ delivered < MaxSignals
    /\ delivered' = delivered + 1
    /\ signalChan' = [signalChan EXCEPT ![p] = Append(@, s)]
    /\ UNCHANGED <<pc, mode, ln, srv, errChan, sig, ret, reloadCalls,
                   shutdownCalls>>
    /\ UNCHANGED engineVars
    /\ UNCHANGED procVars
    /\ UNCHANGED <<shutdownResult, running>>
    /\ UNCHANGED <<brokerVars, regVars>>

\* -------------------------------------------------------------- signals
\* The OS delivers a signal the process asked for; the runtime's send on
\* the channel does not block: with the buffer full the signal is dropped.
DeliverSignal(p, s) ==
    /\ Alive(p)
    /\ s \in Notified(p)
    /\ delivered < MaxSignals
    /\ delivered' = delivered + 1
    /\ signalChan' = [signalChan EXCEPT ![p] =
                         IF Len(@) < 1 THEN Append(@, s) ELSE @]
    /\ UNCHANGED <<pc, mode, ln, srv, errChan, sig, ret, reloadCalls,
                   shutdownCalls>>
    /\ UNCHANGED engineVars
    /\ UNCHANGED procVars
    /\ UNCHANGED <<shutdownResult, running>>
    /\ UNCHANGED <<brokerVars, regVars>>

Signals == {"HUP", "TERM", "INT", "QUIT"}

Next ==
    \E p \in Procs :
        \/ \E f \in Callbacks : RegisterOnShutdown(p, f)
        \/ GracefulServe(p)
        \/ ListenAndServeFail(p)
        \/ ServeQuit(p)
        \/ ServeErr(p)
        \/ CallbackReturns(p)
        \/ CallbackPanics(p)
        \/ ServeShutdown(p)
        \/ \E o \in ShutdownOutcomes : ServeShutdownReturns(p, o)
        \/ \E s \in Signals : DeliverSignal(p, s)
        \/ \E b \in BOOLEAN : GracefulRun(p, b)
        \/ ServeFail(p)
        \/ HandleHUP(p)
        \/ HandleTerm(p)
        \/ \E in \in ReloadInputs : ReloadFails(p, in)
        \/ \E in \in ReloadInputs : ReloadPanics(p, in)
        \/ \E in \in ReloadInputs : ReloadSucceeds(p, in)
        \/ \E o \in ShutdownOutcomes : RunShutdownReturns(p, o)

Spec == Init /\ [][Next]_vars

\* ============================== Engine.Run on the delegated upgrader
\* One process; the broker behind New, Listen, Ready, Exit, Stop and Upgrade
\* is the tableflip library, of which only the contract is modelled: Stop and
\* a completed upgrade make the channel of Exit() close.

\* The process has not been killed by a signal nobody handles.
BrokerAlive == runPc # "killed"

\* engine.go 161-165, upgrader.go 29-39: upgrader.New.
RunNew(ok) ==
    /\ runPc = "start"
    /\ IF ok
       THEN runPc' = "created" /\ runRet' = runRet
       ELSE runPc' = "returned" /\ runRet' = "failed to create upgrader"
    /\ UNCHANGED <<stopCalls, stopped, exitFired, bServe, wStarted, wChan, wPc,
                   upgradeCalls, upgradesRunning, hupsTaken>>
    /\ UNCHANGED <<chainVars, regVars>>

\* engine.go 166-170, upgrader.go 41-47: Listen; on an error Run returns and
\* the deferred Stop runs.
RunListen(ok) ==
    /\ runPc = "created"
    /\ IF ok
       THEN /\ runPc' = "listened"
            /\ UNCHANGED <<runRet, stopCalls, stopped>>
       ELSE /\ runPc' = "returned"
            /\ runRet' = "failed to create listener"
            /\ stopCalls' = stopCalls + 1
            /\ stopped' = TRUE
    /\ UNCHANGED <<exitFired, bServe, wStarted, wChan, wPc, upgradeCalls,
                   upgradesRunning, hupsTaken>>
    /\ UNCHANGED <<chainVars, regVars>>

\* engine.go 172-183, upgrader.go 62-64: Ready; on an error Run returns and
\* the deferred Stop runs, otherwise the Serve goroutine is started and Run
\* blocks on Exit().
RunReady(ok) ==
    /\ runPc = "listened"
    /\ IF ok
       THEN /\ runPc' = "waitExit"
            /\ bServe' = "serving"
            /\ UNCHANGED <<runRet, stopCalls, stopped>>
       ELSE /\ runPc' = "returned"
            /\ runRet' = "failed to mark as ready"
            /\ stopCalls' = stopCalls + 1
            /\ stopped' = TRUE
            /\ bServe' = bServe
    /\ UNCHANGED <<exitFired, wStarted, wChan, wPc, upgradeCalls,
                   upgradesRunning, hupsTaken>>
    /\ UNCHANGED <<chainVars, regVars>>

\* A plausible slip: the goroutine only logs the error, as GracefulRun's does.
BrokerServeFailLogsOnly ==
    /\ BrokerAlive
    /\ bServe = "serving"
    /\ bServe' = "failed"
    /\ UNCHANGED <<runPc, runRet, stopCalls, stopped, exitFired, wStarted,
                   wChan, wPc, upgradeCalls, upgradesRunning, hupsTaken>>
    /\ UNCHANGED <<chainVars, regVars>>

\* engine.go 178-183: Serve returns an error other than ErrServerClosed; it
\* is logged and Stop is called.
BrokerServeFail ==
    /\ BrokerAlive
    /\ bServe = "serving"
    /\ bServe' = "failed"
    /\ stopCalls' = stopCalls + 1
    /\ stopped' = TRUE
    /\ UNCHANGED <<runPc, runRet, exitFired, wStarted, wChan, wPc,
                   upgradeCalls, upgradesRunning, hupsTaken>>
    /\ UNCHANGED <<chainVars, regVars>>

\* upgrader.go 66-72: after Stop, or after an upgrade has completed, the
\* broker closes the channel that Exit() returns.
BrokerExit ==
    /\ BrokerAlive
    /\ stopped
    /\ ~exitFired
    /\ exitFired' = TRUE
    /\ UNCHANGED <<runPc, runRet, stopCalls, stopped, bServe, wStarted, wChan,
                   wPc, upgradeCalls, upgradesRunning, hupsTaken>>
    /\ UNCHANGED <<chainVars, regVars>>

\* engine.go 185-186: the receive from Exit() completes, Run returns nil and
\* the deferred Stop runs.
RunReturn ==
    /\ runPc = "waitExit"
    /\ exitFired
    /\ runPc' = "returned"
    /\ runRet' = "nil"
    /\ stopCalls' = stopCalls + 1
    /\ UNCHANGED <<stopped, exitFired, bServe, wStarted, wChan, wPc,
                   upgradeCalls, upgradesRunning, hupsTaken>>
    /\ UNCHANGED <<chainVars, regVars>>

\* upgrader.go 49-52: WatchSignal starts the goroutine, which makes the
\* channel and asks for SIGHUP.
WatchSignal ==
    /\ runPc \in {"created", "listened", "waitExit"}
    /\ ~wStarted
    /\ wStarted' = TRUE
    /\ UNCHANGED <<runPc, runRet, stopCalls, stopped, exitFired, bServe, wChan,
                   wPc, upgradeCalls, upgradesRunning, hupsTaken>>
    /\ UNCHANGED <<chainVars, regVars>>


\* upgrader.go 51-52: a signal reaches the process.  SIGHUP is sent on the
\* channel without blocking (dropped when the buffer is full); any other
\* signal is not relayed and takes its default action, which ends the
\* process.
BrokerDeliver(s) ==
    /\ BrokerAlive
    /\ wStarted
    /\ hupsTaken + Len(wChan) < MaxSignals
    /\ IF s = "HUP"
       THEN /\ wChan' = IF Len(wChan) < 1 THEN Append(wChan, s) ELSE wChan
            /\ runPc' = runPc
       ELSE /\ wChan' = wChan
            /\ runPc' = "killed"
    /\ UNCHANGED <<runRet, stopCalls, stopped, exitFired, bServe, wStarted,
                   wPc, upgradeCalls, upgradesRunning, hupsTaken>>
    /\ UNCHANGED <<chainVars, regVars>>

\* A plausible slip: each signal is handled in a goroutine of its own.
WatcherTakeAsync ==
    /\ BrokerAlive
    /\ wStarted
    /\ wChan # << >>
    /\ wChan' = Tail(wChan)
    /\ hupsTaken' = hupsTaken + 1
    /\ wPc' = "upgrading"
    /\ upgradeCalls' = upgradeCalls + 1
    /\ upgradesRunning' = upgradesRunning + 1
    /\ UNCHANGED <<runPc, runRet, stopCalls, stopped, exitFired, bServe,
                   wStarted>>
    /\ UNCHANGED <<chainVars, regVars>>

\* upgrader.go 53-54: the range loop takes a signal and calls upg.Upgrade.
WatcherTake ==
    /\ BrokerAlive
    /\ wStarted
    /\ wPc = "idle"
    /\ wChan # << >>
    /\ wChan' = Tail(wChan)
    /\ hupsTaken' = hupsTaken + 1
    /\ wPc' = "upgrading"
    /\ upgradeCalls' = upgradeCalls + 1
    /\ upgradesRunning' = upgradesRunning + 1
    /\ UNCHANGED <<runPc, runRet, stopCalls, stopped, exitFired, bServe,
                   wStarted>>
    /\ UNCHANGED <<chainVars, regVars>>

UpgradeOutcomes == {"nil", "err"}


\* upgrader.go 54-58: Upgrade returns; an error is logged and the loop goes
\* on.  The broker upgrades only a process that is ready and not stopping,
\* and a completed upgrade makes it close the Exit channel.
WatcherUpgradeReturns(outcome) ==
    /\ BrokerAlive
    /\ wPc = "upgrading"
    /\ outcome = "nil" => (runPc = "waitExit" /\ ~stopped)
    /\ wPc' = "idle"
    /\ upgradesRunning' = upgradesRunning - 1
    /\ stopped' = (stopped \/ outcome = "nil")
    /\ UNCHANGED <<runPc, runRet, stopCalls, exitFired, bServe, wStarted,
                   wChan, upgradeCalls, hupsTaken>>
    /\ UNCHANGED <<chainVars, regVars>>

NextBroker ==
    \/ \E ok \in BOOLEAN : RunNew(ok)
    \/ \E ok \in BOOLEAN : RunListen(ok)
    \/ \E ok \in BOOLEAN : RunReady(ok)
    \/ BrokerServeFail
    \/ BrokerExit
    \/ RunReturn
    \/ WatchSignal
    \/ \E s \in Signals : BrokerDeliver(s)
    \/ WatcherTake
    \/ \E o \in UpgradeOutcomes : WatcherUpgradeReturns(o)

SpecBroker == Init /\ [][NextBroker]_vars

\* The goroutines of the process are scheduled: the broker closes the Exit
\* channel once it has to, and Run's receive from it completes.
FairSpecBroker == SpecBroker /\ WF_vars(BrokerExit) /\ WF_vars(RunReturn)

\* ================== RegisterOnShutdown called from several goroutines
\* engine.go 227-229: the statement reads the slice header and writes the
\* result of append back, with no lock; callers on different goroutines race.
\* Every goroutine of Registrars registers the callback of its own name on
\* the first process's Engine.

\* The read of engine.shutdownCallbacks that append is handed.
RegRead(g) ==
    /\ regPc[g] = "idle"
    /\ regLocal' = [regLocal EXCEPT ![g] = shutdownCallbacks[1]]
    /\ regPc' = [regPc EXCEPT ![g] = "read"]
    /\ UNCHANGED chainVars
    /\ UNCHANGED brokerVars

\* The assignment of append's result to engine.shutdownCallbacks.
RegWrite(g) ==
    /\ regPc[g] = "read"
    /\ shutdownCallbacks' = [shutdownCallbacks EXCEPT ![1] = Append(regLocal[g], g)]
    /\ regPc' = [regPc EXCEPT ![g] = "done"]
    /\ UNCHANGED <<pc, mode, env, fds, ln, srv, signalChan, errChan, sig, ret,
                   cbRange, cbLog, cbAtSignal, reloadCalls, shutdownCalls,
                   spawned, parent, procAttr, shutdownResult, running,
                   delivered>>
    /\ UNCHANGED regLocal
    /\ UNCHANGED brokerVars

NextRegister == \E g \in Registrars : RegRead(g) \/ RegWrite(g)

SpecRegister == Init /\ [][NextRegister]_vars

\* ================================================================ claims
IsPrefix(a, b) == Len(a) <= Len(b) /\ SubSeq(b, 1, Len(a)) = a

RunProcs == {p \in Procs : mode[p] = "GracefulRun"}
ServeProcs == {p \in Procs : mode[p] = "GracefulServe"}
Children == {c \in Procs : parent[c] # 0}

\* C1: in GracefulServe, the callbacks registered when the terminate signal
\* is taken are invoked once each and in registration order (what has been
\* invoked is always an initial part of that registry), and when
\* server.Shutdown is called all of them have been invoked and have returned;
\* Shutdown is called at most once.
C1_CallbacksBeforeShutdown ==
    \A p \in ServeProcs :
        /\ IsPrefix(cbLog[p], cbAtSignal[p])
        /\ shutdownCalls[p] <= 1
        /\ shutdownCalls[p] > 0 => /\ cbLog[p] = cbAtSignal[p]
                                  /\ pc[p] \in {"gsShutdown", "returned"}

C1_Witness ==
    \E p \in ServeProcs :
        /\ pc[p] = "gsShutdown"
        /\ Len(cbAtSignal[p]) = 2
        /\ cbAtSignal[p][1] # cbAtSignal[p][2]
        /\ cbLog[p] = cbAtSignal[p]

\* C2 (as claimed): in GracefulRun, when the parent's server is shut down
\* after a reload, every callback registered on the Engine has run, once and
\* in registration order.
C2_CallbacksBeforeReloadShutdown ==
    \A p \in RunProcs :
        (sig[p] = "HUP" /\ shutdownCalls[p] > 0) => cbLog[p] = shutdownCallbacks[p]

\* C3: when server.Shutdown returns the deadline error, the run call has
\* returned (Exited) with a non-nil error, and in GracefulServe every callback
\* registered when the signal was taken has run.
C3_TimeoutReported ==
    \A p \in Procs :
        shutdownResult[p] = "deadline" =>
            /\ pc[p] = "returned"
            /\ ret[p] \in {"server shutdown error", "deadline exceeded"}
            /\ p \in ServeProcs => cbLog[p] = cbAtSignal[p]

C3_Witness ==
    \E p \in ServeProcs :
        /\ shutdownResult[p] = "deadline"
        /\ ret[p] = "server shutdown error"
        /\ Len(cbLog[p]) = 2

\* C4: in WaitForSignal a process that has taken TERM or INT is draining or
\* has returned, never inside Reload; it has called server.Shutdown exactly
\* once, and once it has returned, the result is nil exactly when Shutdown
\* returned nil.
C4_TerminateDrainsOnce ==
    \A p \in RunProcs :
        sig[p] \in {"TERM", "INT"} =>
            /\ pc[p] \in {"draining", "returned"}
            /\ shutdownCalls[p] = 1
            /\ spawned[p] = 0
            /\ pc[p] = "returned" =>
                  (ret[p] = "nil" <=> shutdownResult[p] = "nil")

C4_Witness ==
    \E p \in RunProcs :
        /\ sig[p] = "TERM"
        /\ reloadCalls[p] = 0
        /\ pc[p] = "returned"
        /\ shutdownCalls[p] = 1
        /\ ret[p] = "nil"

\* C5: a process whose environment has the marker set to "true" never holds
\* a freshly bound listener: after Listen, g.ln either wraps the socket that
\* was at slot 3 (origin Inherited) or is unset with GracefulRun returning
\* the acquire error; a Fresh listener is only held without the marker.
C5_NoFreshBindUnderMarker ==
    \A p \in RunProcs :
        IF Getenv(env[p], "GRACEFUL_RESTART") = "true"
        THEN \/ /\ ln[p].origin = "Inherited"
                /\ ln[p].kind = procAttr[p].Files[3].kind
                /\ ln[p].sock = procAttr[p].Files[3].sock
             \/ /\ ln[p] = NoListener
                /\ pc[p] = "returned"
                /\ ret[p] = "failed to create listener"
        ELSE ln[p].origin \in {"Fresh", "None"}

C5_Witness ==
    \E p \in RunProcs :
        /\ Getenv(env[p], "GRACEFUL_RESTART") = "true"
        /\ procAttr[p].Files[3].kind \in {"closed", "file"}
        /\ ln[p] = NoListener
        /\ ret[p] = "failed to create listener"

\* C6 (as claimed): every child is started with the parent's environment
\* plus the marker and with stdin, stdout, stderr and the listener at slots
\* 0..3, and its Listen finds the listener at slot 3: once the child has
\* made its run call it holds that socket as an Inherited listener.
C6_ChildInheritsAtSlot3 ==
    \A c \in Children :
        /\ procAttr[c].Env = Append(Environ(env[parent[c]]), Marker)
        /\ procAttr[c].Files = StdFiles(Desc("tcp", ln[parent[c]].sock))
        /\ c \in RunProcs => /\ ln[c].origin = "Inherited"
                             /\ ln[c].sock = ln[parent[c]].sock

\* C7: in one process at most one Reload or Shutdown invocation is in
\* progress at any instant, and once a child has been started the process
\* is draining or has returned: it starts no further Reload and no second
\* child.
C7_OneAtATime ==
    \A p \in RunProcs :
        /\ running[p] <= 1
        /\ spawned[p] <= 1
        /\ spawned[p] = 1 => pc[p] \in {"draining", "returned"}

C7_Witness ==
    \E p \in RunProcs :
        /\ pc[p] = "reloading"
        /\ running[p] = 1
        /\ signalChan[p] = <<"HUP">>
        /\ reloadCalls[p] = 1

\* Reload has returned an error to WaitForSignal in this step.
ReloadReturnedError(p) ==
    /\ pc[p] = "reloading"
    /\ pc'[p] \notin {"reloading", "panicked"}
    /\ spawned'[p] = spawned[p]

\* C8: when Reload returns an error the process stays Running: it is back at
\* the receive, WaitForSignal has not returned, server.Shutdown has not been
\* called, the listener is as it was, and Reload is not called again by that
\* step; every call of Reload takes one HUP from the channel.
C8_FailedReloadStaysRunning ==
    [][\A p \in RunProcs :
          /\ ReloadReturnedError(p) =>
                /\ pc'[p] = "waiting"
                /\ ret'[p] = "none"
                /\ shutdownCalls'[p] = shutdownCalls[p]
                /\ ln'[p] = ln[p]
                /\ reloadCalls'[p] = reloadCalls[p]
          /\ reloadCalls'[p] # reloadCalls[p] =>
                /\ reloadCalls'[p] = reloadCalls[p] + 1
                /\ signalChan[p] = <<"HUP">>
                /\ signalChan'[p] = << >>]_vars

C8_Witness ==
    \E p \in RunProcs :
        /\ reloadCalls[p] = 2
        /\ pc[p] = "reloading"
        /\ spawned[p] = 0
        /\ shutdownCalls[p] = 0
        /\ ln[p].open

\* C9 (as claimed): a Reload called while the active listener is no TCP
\* listener leaves the process running and starts no child.
C9_UnsupportedListenerIsAnError ==
    \A p \in RunProcs :
        (ln[p].kind # "tcp" /\ reloadCalls[p] > 0) =>
            /\ pc[p] # "panicked"
            /\ spawned[p] = 0

\* C10: at every instant at most one open listener of origin Fresh exists,
\* and a listener held by a process that Reload started is never Fresh.
C10_OneFreshListener ==
    /\ Cardinality({p \in Procs : ln[p].open /\ ln[p].origin = "Fresh"}) <= 1
    /\ \A c \in Children : ln[c].origin \in {"None", "Inherited"}

C10_Witness ==
    \E c \in Children :
        /\ parent[c] \in Children
        /\ ln[c].origin = "Inherited"
        /\ ln[c].open
        /\ ln[parent[parent[c]]].origin = "Fresh"

\* C11 (as claimed): when the serve loop has failed, the run call returns a
\* non-nil error describing the failure; it never returns nil.
C11_ServeFailureReported ==
    (runPc = "returned" /\ bServe = "failed") => runRet # "nil"

\* C12 (as claimed): once every concurrent caller of RegisterOnShutdown has
\* returned, the registry holds each registered callback exactly once.
C12_ConcurrentRegistrationsKept ==
    (\A g \in Registrars : regPc[g] = "done") =>
        \A g \in Registrars :
            Cardinality({i \in DOMAIN shutdownCallbacks[1] :
                            shutdownCallbacks[1][i] = g}) = 1

\* C13: a callback registered after executeShutdownCallbacks has begun its
\* loop is ignored by that drain: the callbacks invoked and those still to be
\* invoked are together exactly the registry as it was when the loop began,
\* in that order, however the registry has grown since; after the loop
\* exactly those have been invoked, and a registration only appends.
C13_LateRegistrationIgnored ==
    \A p \in ServeProcs :
        /\ pc[p] \in {"callbacks", "panicked"} =>
              cbLog[p] \o cbRange[p] = cbAtSignal[p]
        /\ (pc[p] \in {"gsShutdown", "returned"} /\ sig[p] # "none") =>
              /\ cbRange[p] = << >>
              /\ Len(cbLog[p]) = Len(cbAtSignal[p])
        /\ sig[p] # "none" => IsPrefix(cbAtSignal[p], shutdownCallbacks[p])

C13_Witness ==
    \E p \in ServeProcs :
        /\ pc[p] = "returned"
        /\ cbAtSignal[p] = <<"cbA">>
        /\ shutdownCallbacks[p] = <<"cbA", "cbB">>
        /\ cbLog[p] = <<"cbA">>

\* C14: Run has returned only if the Exit notification has fired or a
\* startup step failed; on every return after the upgrader was created Stop
\* has been invoked; a failed serve loop has invoked Stop, and from then on
\* the Exit notification fires and Run eventually returns (unless the
\* process is killed first).
C14_RunStopExit ==
    /\ [](/\ runPc = "returned" =>
                /\ \/ exitFired
                   \/ runRet \in {"failed to create upgrader",
                                  "failed to create listener",
                                  "failed to mark as ready"}
                /\ runRet # "failed to create upgrader" => stopCalls >= 1
          /\ bServe = "failed" => (stopCalls >= 1 /\ stopped))
    /\ (bServe = "failed") ~> (runPc \in {"returned", "killed"})

C14_Witness ==
    /\ bServe = "failed"
    /\ exitFired
    /\ runPc = "returned"
    /\ upgradeCalls = 0
    /\ stopCalls = 2

\* C15 (as claimed): the state of a process in WaitForSignal changes only
\* Running -> ReloadRequested on HUP, Running -> Draining on TERM or INT,
\* ReloadRequested -> Running without a child, ReloadRequested -> Draining
\* with the child spawned, Draining -> Exited; after Exited nothing of the
\* process changes but signals piling up in its channel.
C15_UpgradeStatePath ==
    [][\A p \in RunProcs :
          /\ pc'[p] # pc[p] =>
                \/ /\ pc[p] = "waiting" /\ pc'[p] = "reloading"
                   /\ Head(signalChan[p]) = "HUP"
                \/ /\ pc[p] = "waiting" /\ pc'[p] = "draining"
                   /\ Head(signalChan[p]) \in {"TERM", "INT"}
                   /\ spawned'[p] = 0
                \/ /\ pc[p] = "reloading" /\ pc'[p] = "waiting"
                   /\ spawned'[p] = 0
                \/ /\ pc[p] = "reloading" /\ pc'[p] = "draining"
                   /\ spawned[p] = 0 /\ spawned'[p] = 1
                \/ pc[p] = "draining" /\ pc'[p] = "returned"
          /\ pc[p] = "returned" =>
                /\ pc'[p] = "returned"
                /\ sig'[p] = sig[p]
                /\ reloadCalls'[p] = reloadCalls[p]
                /\ shutdownCalls'[p] = shutdownCalls[p]
                /\ spawned'[p] = spawned[p]
                /\ Len(signalChan'[p]) >= Len(signalChan[p])]_vars

\* The descriptor table or the listener of c has the socket open.
HoldsSocket(c, sock) ==
    \/ ln[c].open /\ ln[c].sock = sock
    \/ fds[c][3].kind = "tcp" /\ fds[c][3].sock = sock

\* C16: a parent whose Reload succeeded has a child, and as long as that
\* child has neither ended nor shut its own server down it holds an open
\* descriptor of the parent's socket, whatever the parent has closed since;
\* a process whose server was shut down on HUP has started its child before.
C16_NoGapInOwnership ==
    \A p \in RunProcs :
        /\ spawned[p] = 1 =>
              \E c \in Children :
                  /\ parent[c] = p
                  /\ procAttr[c].Files[3] = Desc("tcp", ln[p].sock)
                  /\ (pc[c] \in {"start", "waiting", "reloading"}
                        /\ srv[c] # "failed") => HoldsSocket(c, ln[p].sock)
        /\ (sig[p] = "HUP" /\ srv[p] = "shutdown") => spawned[p] = 1
        /\ (pc[p] \in {"waiting", "reloading"} /\ srv[p] = "serving") =>
              ln[p].open

C16_Witness ==
    \E c \in Children :
        /\ pc[parent[c]] = "returned"
        /\ ~ln[parent[c]].open
        /\ pc[c] = "waiting"
        /\ ln[c].open
        /\ ln[c].origin = "Inherited"
        /\ ln[c].sock = ln[parent[c]].sock

\* C17: in the step in which Reload returns nil and the parent starts to
\* drain, the child has only been started: it has not made its run call and
\* has no listener; the parent's Shutdown is called in that same step.
C17_FireAndForget ==
    [][\A p \in Procs :
          (pc[p] = "reloading" /\ pc'[p] = "draining") =>
              /\ shutdownCalls'[p] = shutdownCalls[p] + 1
              /\ ~ln'[p].open
              /\ \E c \in Procs :
                    /\ pc[c] = "unborn"
                    /\ parent'[c] = p
                    /\ pc'[c] = "start"
                    /\ mode'[c] = "none"
                    /\ ln'[c] = NoListener]_vars

C17_Witness ==
    \E c \in Children :
        /\ pc[parent[c]] = "returned"
        /\ ~ln[parent[c]].open
        /\ pc[c] = "start"
        /\ ln[c] = NoListener

\* C18: the watcher's channel only ever holds HUP; the Upgrade requests made
\* are as many as the signals taken; at most one request is in progress, and
\* it is in progress exactly while the watcher is inside Upgrade; whatever
\* Upgrade returned, the watcher is back in its loop.
C18_WatcherRelaysHUP ==
    /\ \A i \in DOMAIN wChan : wChan[i] = "HUP"
    /\ Len(wChan) <= 1
    /\ upgradeCalls = hupsTaken
    /\ upgradesRunning <= 1
    /\ wPc \in {"idle", "upgrading"}
    /\ wPc = "upgrading" <=> upgradesRunning = 1
    /\ ~wStarted => (wChan = << >> /\ upgradeCalls = 0)

C18_Witness ==
    /\ upgradeCalls = 2
    /\ wPc = "idle"
    /\ ~stopped
    /\ runPc = "waitExit"
    /\ wChan = <<"HUP">>

\* C19: the signal channel of a process holds at most one signal; a pending
\* signal is never replaced, so one delivered meanwhile is discarded; a
\* signal is handled by taking the head of the channel, once; the signals
\* handled and pending are never more than those delivered.
C19_OnePendingSignal ==
    [][\A p \in Procs :
          /\ Len(signalChan'[p]) <= 1
          /\ (signalChan[p] # << >> /\ signalChan'[p] # << >>) =>
                signalChan'[p] = signalChan[p]
          /\ (\/ sig'[p] # sig[p]
              \/ reloadCalls'[p] # reloadCalls[p]
              \/ (shutdownCalls'[p] # shutdownCalls[p] /\ pc[p] = "waiting")) =>
                /\ signalChan[p] # << >>
                /\ sig'[p] = Head(signalChan[p])
                /\ signalChan'[p] = Tail(signalChan[p])
          /\ reloadCalls'[p] + Len(signalChan'[p]) <= delivered']_vars

C19_Witness ==
    /\ pc[1] = "waiting"
    /\ reloadCalls[1] = 2
    /\ delivered = 3
    /\ signalChan[1] = << >>
    /\ shutdownCalls[1] = 0
    /\ pc[2] = "unborn"

\* C20 (as claimed): when ListenAndServe has failed and no signal has been
\* consumed, GracefulServe takes the error path: from the select with the
\* error pending it does not go on to the callbacks.
C20_ErrorPathWhenServeFailedFirst ==
    [][\A p \in ServeProcs :
          (pc[p] = "select" /\ errChan[p] # << >>) => pc'[p] # "callbacks"]_vars

====
